---- MODULE Spec2Model ----
(***************************************************************************)
(* Model of store/piece_store.go: the plan builder NewPieceReader and the  *)
(* PieceReader cursor (Read, MakeCopy, Close) over a shared block list.    *)
(*                                                                         *)
(* Conventions.                                                            *)
(*  - A Go pointer or nilable slice is Nil (<<>>) or Some(x) (<<x>>).       *)
(*  - A byte is a number in 0..255, a []byte a sequence of bytes.          *)
(*  - A uint64 is represented by its residue of least magnitude: a         *)
(*    negative number r stands for the wrapped value 2^64 + r.  Every      *)
(*    quantity of the model is far below 2^63, so sums and differences of  *)
(*    representatives are the representatives of the uint64 results.       *)
(*  - A Cid is held, as in go-cid, as its binary string; Bytes() returns   *)
(*    that string.                                                         *)
(***************************************************************************)
EXTENDS Integers, Sequences, FiniteSets, TLC

VARIABLES
    car,          \* model.Car handed to NewPieceReader: Header, FileSize
    carBlocks,    \* []model.CarBlock handed to NewPieceReader
    resolverOk,   \* whether datasource.HandlerResolver.GetHandler succeeds
    built,        \* outcome of NewPieceReader: state, err, resolver calls
    Blocks,       \* the block list shared by the reader and its copies
    readers,      \* reader id -> PieceReader cursor fields
    obs,          \* reader id -> what the callers of that reader have seen
    streams,      \* every io.ReadCloser a source handler has returned
    panicked      \* a run-time panic has unwound the program

vars == <<car, carBlocks, resolverOk, built, Blocks, readers, obs, streams, panicked>>

----------------------------------------------------------------------------
(* Bounds of the model *)

MaxBlocks == 2        \* candidates per plan when the piece is read
MaxBuildBlocks == 4   \* candidates per plan when the plan is only built
MaxBuf == 2           \* the small output buffers have 1..MaxBuf bytes
MaxCloses == 2        \* Close calls made on one reader
ItemSize == 3         \* bytes of every backing item

----------------------------------------------------------------------------
(* Values *)

Nil == <<>>
Some(x) == <<x>>

\* min, piece_store.go
min(i, i2) == IF i < i2 THEN i ELSE i2

Header == <<10, 11>>

ItemIds == {1, 2}

\* model.Item: identity, path and declared size
Item(id) == [ID |-> id, Path |-> id, Size |-> ItemSize]

\* the bytes of the backing item, 0-based offset k
ItemByte(id, k) == 100 + 20 * (id - 1) + k

\* item bytes [from, from + n)
ItemRange(id, from, n) == [j \in 1..n |-> ItemByte(id, from + j - 1)]

\* varint.ToUvarint: little-endian base-128, high bit set on all but the last byte
RECURSIVE ToUvarint(_)
ToUvarint(x) ==
    IF x < 128 THEN <<x>> ELSE <<128 + (x % 128)>> \o ToUvarint(x \div 128)

\* cid.MustParse(c).Bytes()
CidBytes(c) == c

----------------------------------------------------------------------------
(* Block descriptors *)

\* ItemBlockMetadata / RawBlock derived accessors
CidOffset(b) == b.PieceOffset + Len(b.Varint)
BlockOffset(b) == b.PieceOffset + Len(b.Varint) + Len(b.Cid)
RawEndOffset(r) == r.PieceOffset + Len(r.Varint) + Len(r.Cid) + Len(r.BlockData)
MetaEndOffset(i) == i.PieceOffset + Len(i.Varint) + Len(i.Cid) + i.ItemLength

IsRaw(b) == b.kind = "raw"

RawBlock(cb) ==
    [kind |-> "raw",
     PieceOffset |-> cb.CarOffset,
     Varint |-> ToUvarint(cb.Varint),
     Cid |-> CidBytes(cb.CID),
     BlockData |-> cb.RawBlock[1]]

ItemBlockMetadata(cb) ==
    [PieceOffset |-> cb.CarOffset,
     Varint |-> ToUvarint(cb.Varint),
     Cid |-> CidBytes(cb.CID),
     ItemOffset |-> cb.ItemOffset,
     ItemLength |-> cb.BlockLength]

ItemBlock(cb) ==
    [kind |-> "item",
     PieceOffset |-> cb.CarOffset,
     SourceHandler |-> cb.Source[1],
     Item |-> cb.Item,
     Meta |-> <<ItemBlockMetadata(cb)>>]

----------------------------------------------------------------------------
(* NewPieceReader *)

ErrEmpty == "no Blocks provided"
ErrHeader == "first block must start at car Header"
ErrFooter == "last block must end at car footer"
ErrContiguous == "Blocks must be contiguous"
ErrUnresolved == "block must be either raw or Item, and the Item/source needs to be preloaded"
ErrHandler == "failed to get handler"
NoErr == "nil"
Panic == "panic"

HeaderAligned(c, cbs) == cbs[1].CarOffset = Len(c.Header)

FooterAlignedMut(c, cbs) == cbs[Len(cbs)].CarOffset + cbs[Len(cbs)].CarBlockLength <= c.FileSize
FooterAligned(c, cbs) == cbs[Len(cbs)].CarOffset + cbs[Len(cbs)].CarBlockLength = c.FileSize

ContiguousMut(a, b) == a.CarOffset + a.CarBlockLength <= b.CarOffset
Contiguous(a, b) == a.CarOffset + a.CarBlockLength = b.CarOffset

Unresolved(cb) == cb.RawBlock = Nil /\ (cb.Item = Nil \/ cb.Source = Nil)

\* the candidates the sanitizing loop visits: all but the last
Sanitized(cbs) == 1..(Len(cbs) - 1)

\* the checks made before any block is built; NoErr when all pass
Sanitize(c, cbs) ==
    IF Len(cbs) = 0 THEN ErrEmpty
    ELSE IF ~HeaderAligned(c, cbs) THEN ErrHeader
    ELSE IF ~FooterAligned(c, cbs) THEN ErrFooter
    ELSE LET bad == {i \in Sanitized(cbs) :
                        ~Contiguous(cbs[i], cbs[i + 1]) \/ Unresolved(cbs[i])}
         IN IF bad = {} THEN NoErr
            ELSE LET i == CHOOSE j \in bad : \A k \in bad : j <= k
                 IN IF ~Contiguous(cbs[i], cbs[i + 1])
                    THEN ErrContiguous ELSE ErrUnresolved

\* whether the run being accumulated ends before candidate cb
EndsRunMut(last, cb) == cb.RawBlock # Nil
EndsRun(last, cb) == cb.RawBlock # Nil \/ last.Item[1].ID # cb.Item[1].ID

\* the folding loop from candidate i on: blocks built so far, the run being
\* accumulated (lastItemBlock, Nil or Some), resolver calls made so far
RECURSIVE Combine(_, _, _, _, _, _)
Combine(cbs, i, blocks, last, calls, rOk) ==
    IF i > Len(cbs)
    THEN [err |-> NoErr,
          Blocks |-> IF last # Nil THEN Append(blocks, last[1]) ELSE blocks,
          calls |-> calls]
    ELSE
      LET cb == cbs[i] IN
      IF last # Nil /\ cb.RawBlock = Nil /\ cb.Item = Nil
      THEN [err |-> Panic, Blocks |-> <<>>, calls |-> calls]
      ELSE
        LET ends == last # Nil /\ EndsRun(last[1], cb)
            blocks1 == IF ends THEN Append(blocks, last[1]) ELSE blocks
            last1 == IF ends THEN Nil ELSE last
        IN
        IF cb.RawBlock # Nil
        THEN Combine(cbs, i + 1, Append(blocks1, RawBlock(cb)), last1, calls, rOk)
        ELSE IF last1 = Nil
        THEN IF cb.Source = Nil
             THEN [err |-> Panic, Blocks |-> <<>>, calls |-> calls]
             ELSE IF ~rOk
             THEN [err |-> ErrHandler, Blocks |-> <<>>, calls |-> calls + 1]
             ELSE Combine(cbs, i + 1, blocks1, Some(ItemBlock(cb)), calls + 1, rOk)
        ELSE Combine(cbs, i + 1, blocks1,
                     Some([last1[1] EXCEPT !.Meta = Append(@, ItemBlockMetadata(cb))]),
                     calls, rOk)

\* NewPieceReader's result: err (NoErr, an error or Panic), the block list, resolver calls
NewPieceReaderResult(c, cbs, rOk) ==
    LET e == Sanitize(c, cbs)
    IN IF e # NoErr THEN [err |-> e, Blocks |-> <<>>, calls |-> 0]
       ELSE Combine(cbs, 1, <<>>, Nil, 0, rOk)

\* the reader NewPieceReader returns
FreshReader == [pos |-> 0, blockID |-> 0, innerBlockID |-> 0, blockOffset |-> 0, reader |-> Nil]

----------------------------------------------------------------------------
(* PieceReader.MakeCopy *)

\* the comparison handed to the binary search: int(b.GetPieceOffset() - o)
Cmp(b, o) == b.PieceOffset - o

\* slices.BinarySearchFunc on x[i..j), 0-based: the least index whose element
\* does not precede the target, Len(x) when every element precedes it
RECURSIVE BinarySearchFunc(_, _, _, _)
BinarySearchFunc(x, target, i, j) ==
    IF i < j
    THEN LET h == (i + j) \div 2
         IN IF Cmp(x[h + 1], target) < 0
            THEN BinarySearchFunc(x, target, h + 1, j)
            ELSE BinarySearchFunc(x, target, i, h)
    ELSE i

\* MakeCopy's result: the new reader, or a panic on an index out of range
MakeCopyResult(blocks, hdr, offset) ==
    LET newReader == [pos |-> offset, blockID |-> 0, innerBlockID |-> 0,
                      blockOffset |-> 0, reader |-> Nil]
    IN
    IF offset < Len(hdr) THEN [panic |-> FALSE, pr |-> newReader]
    ELSE
      LET index == BinarySearchFunc(blocks, offset, 0, Len(blocks)) IN
      IF index >= Len(blocks) THEN [panic |-> TRUE, pr |-> newReader]
      ELSE
        LET block == blocks[index + 1] IN
        IF IsRaw(block)
        THEN [panic |-> FALSE,
              pr |-> [newReader EXCEPT !.blockID = index,
                                       !.blockOffset = offset - block.PieceOffset]]
        ELSE
          LET innerIndex == BinarySearchFunc(block.Meta, offset, 0, Len(block.Meta)) IN
          IF innerIndex >= Len(block.Meta) THEN [panic |-> TRUE, pr |-> newReader]
          ELSE [panic |-> FALSE,
                pr |-> [newReader EXCEPT
                          !.blockID = index,
                          !.innerBlockID = innerIndex,
                          !.blockOffset = offset - block.Meta[innerIndex + 1].PieceOffset]]

----------------------------------------------------------------------------
(* PieceReader.Read *)

\* A call in progress: the cursor pr, the streams str, the count n, the bytes
\* data written to p[0..n), the error to return, whether the call has
\* returned (done) or panicked, whether a call it made to the source has
\* failed (fail) and how many calls it made to the source after that (after).

\* a call to the source: SourceHandler.Read or the stream's Read
Invoke(c) == [c EXCEPT !.after = IF c.fail THEN @ + 1 ELSE @]

\* Copy with the cursor moved past all of src[from:], copied or not
CopyMut(c, L, src, from) ==
    IF from < 0 \/ from > Len(src)
    THEN [c EXCEPT !.panic = TRUE, !.done = TRUE]
    ELSE LET copied == min(L - c.n, Len(src) - from)
             c1 == [c EXCEPT !.pr.pos = @ + (Len(src) - from),
                             !.n = @ + copied,
                             !.data = @ \o SubSeq(src, from + 1, from + copied)]
         IN [c1 EXCEPT !.done = (c1.n = L)]

\* copied := copy(p[n:], src[from:]); pr.pos += copied; n += copied;
\* if n == len(p) { return n, nil }
Copy(c, L, src, from) ==
    IF from < 0 \/ from > Len(src)
    THEN [c EXCEPT !.panic = TRUE, !.done = TRUE]
    ELSE LET copied == min(L - c.n, Len(src) - from)
             c1 == [c EXCEPT !.pr.pos = @ + copied,
                             !.n = @ + copied,
                             !.data = @ \o SubSeq(src, from + 1, from + copied)]
         IN [c1 EXCEPT !.done = (c1.n = L)]

\* the RawBlock branch
ReadRaw(c, L, rawBlock) ==
    LET c1 == IF c.pr.pos < CidOffset(rawBlock)
              THEN Copy(c, L, rawBlock.Varint, c.pr.pos - rawBlock.PieceOffset)
              ELSE c
        c2 == IF ~c1.done /\ c1.pr.pos < BlockOffset(rawBlock)
              THEN Copy(c1, L, rawBlock.Cid, c1.pr.pos - CidOffset(rawBlock))
              ELSE c1
        c3 == IF ~c2.done /\ c2.pr.pos < RawEndOffset(rawBlock)
              THEN Copy(c2, L, rawBlock.BlockData, c2.pr.pos - BlockOffset(rawBlock))
              ELSE c2
    IN IF c3.done THEN c3
       ELSE [c3 EXCEPT !.pr.blockID = @ + 1, !.pr.innerBlockID = 0, !.done = TRUE]

\* OpenStream against a handler that hands every caller the stream it returned last
OpenStreamMut(c, itemBlock, innerBlock, openOk) ==
    IF c.pr.reader # Nil THEN c
    ELSE IF itemBlock.Item = Nil THEN [c EXCEPT !.panic = TRUE, !.done = TRUE]
    ELSE IF ~openOk
    THEN [Invoke(c) EXCEPT !.n = 0, !.data = <<>>, !.err = "err", !.done = TRUE,
                           !.fail = TRUE]
    ELSE IF c.str # <<>> THEN [Invoke(c) EXCEPT !.pr.reader = Some(Len(c.str))]
    ELSE [Invoke(c) EXCEPT
            !.str = Append(@, [item |-> itemBlock.Item[1].Path,
                               cur |-> innerBlock.ItemOffset + c.pr.blockOffset,
                               end |-> itemBlock.Item[1].Size,
                               closes |-> 0]),
            !.pr.reader = Some(Len(c.str) + 1)]

\* itemBlock.SourceHandler.Read(ctx, path, offset, size - offset) when no stream is held
OpenStream(c, itemBlock, innerBlock, openOk) ==
    IF c.pr.reader # Nil THEN c
    ELSE IF itemBlock.Item = Nil THEN [c EXCEPT !.panic = TRUE, !.done = TRUE]
    ELSE IF ~openOk
    THEN [Invoke(c) EXCEPT !.n = 0, !.data = <<>>, !.err = "err", !.done = TRUE,
                           !.fail = TRUE]
    ELSE [Invoke(c) EXCEPT
            !.str = Append(@, [item |-> itemBlock.Item[1].Path,
                               cur |-> innerBlock.ItemOffset + c.pr.blockOffset,
                               end |-> itemBlock.Item[1].Size,
                               closes |-> 0]),
            !.pr.reader = Some(Len(c.str) + 1)]

\* the bytes a stream can still deliver
Available(s) == IF s.cur < 0 \/ s.cur > s.end THEN 0 ELSE s.end - s.cur

\* the cursor moves past a metadata entry whose payload is consumed
NextEntry(c, itemBlock) ==
    LET inner == c.pr.innerBlockID + 1 IN
    IF inner >= Len(itemBlock.Meta)
    THEN [c EXCEPT !.pr.blockID = @ + 1,
                   !.pr.innerBlockID = 0,
                   !.str[c.pr.reader[1]].closes = @ + 1,
                   !.pr.reader = Nil]
    ELSE [c EXCEPT !.pr.innerBlockID = inner]

\* the payload step with a failure of the stream taken for its end
ReadPayloadMut(c, L, itemBlock, innerBlock, rdN, rdErr) ==
    LET s == c.str[c.pr.reader[1]]
        fails == rdErr \/ s.closes > 0
    IN [Invoke(c) EXCEPT !.done = TRUE, !.fail = fails]

\* the payload step: one read of the stream, of rdN bytes at most, failing when
\* rdErr or when the stream has been closed
ReadPayload(c, L, itemBlock, innerBlock, rdN, rdErr) ==
    LET readTill == min(L, c.n + (MetaEndOffset(innerBlock) - c.pr.pos))
        s == c.str[c.pr.reader[1]]
        fails == rdErr \/ s.closes > 0
        read == IF fails THEN 0 ELSE min(min(rdN, readTill - c.n), Available(s))
        c1 == [Invoke(c) EXCEPT !.n = @ + read,
                                !.pr.pos = @ + read,
                                !.data = @ \o ItemRange(s.item, s.cur, read),
                                !.str[c.pr.reader[1]].cur = @ + read]
    IN IF fails THEN [c1 EXCEPT !.err = "err", !.done = TRUE, !.fail = TRUE]
       ELSE IF c1.pr.pos = MetaEndOffset(innerBlock)
       THEN [NextEntry(c1, itemBlock) EXCEPT !.done = TRUE]
       ELSE [c1 EXCEPT !.done = TRUE]

\* the ItemBlock branch
ReadItem(c, L, itemBlock, openOk, rdN, rdErr) ==
    IF c.pr.innerBlockID >= Len(itemBlock.Meta)
    THEN [c EXCEPT !.panic = TRUE, !.done = TRUE]
    ELSE
      LET innerBlock == itemBlock.Meta[c.pr.innerBlockID + 1]
          c0 == OpenStream(c, itemBlock, innerBlock, openOk)
          c1 == IF ~c0.done /\ c0.pr.pos < CidOffset(innerBlock)
                THEN Copy(c0, L, innerBlock.Varint, c0.pr.pos - innerBlock.PieceOffset)
                ELSE c0
          c2 == IF ~c1.done /\ c1.pr.pos < BlockOffset(innerBlock)
                THEN Copy(c1, L, innerBlock.Cid, c1.pr.pos - CidOffset(innerBlock))
                ELSE c1
      IN IF c2.done THEN c2
         ELSE IF c2.pr.pos < MetaEndOffset(innerBlock)
         THEN ReadPayload(c2, L, itemBlock, innerBlock, rdN, rdErr)
         ELSE [c2 EXCEPT !.done = TRUE]

\* Read(p) with len(p) = L: the call's final state
ReadResult(pr, str, blocks, hdr, L, openOk, rdN, rdErr) ==
    LET c == [pr |-> pr, str |-> str, n |-> 0, data |-> <<>>, err |-> "nil",
              done |-> FALSE, panic |-> FALSE, fail |-> FALSE, after |-> 0]
    IN
    IF pr.blockID >= Len(blocks) THEN [c EXCEPT !.err = "EOF", !.done = TRUE]
    ELSE
      LET c1 == IF pr.pos < Len(hdr) THEN Copy(c, L, hdr, pr.pos) ELSE c
          currentBlock == blocks[pr.blockID + 1]
      IN IF c1.done THEN c1
         ELSE IF IsRaw(currentBlock) THEN ReadRaw(c1, L, currentBlock)
         ELSE ReadItem(c1, L, currentBlock, openOk, rdN, rdErr)

----------------------------------------------------------------------------
(* PieceReader.Close *)

\* Close: nothing without a stream, else the held stream is closed once more;
\* closing a stream that is already closed may return an error (closeErr)
CloseResult(pr, str, closeErr) ==
    IF pr.reader = Nil THEN [str |-> str, err |-> "nil"]
    ELSE [str |-> [str EXCEPT ![pr.reader[1]].closes = @ + 1],
          err |-> IF closeErr /\ str[pr.reader[1]].closes > 0 THEN "err" ELSE "nil"]

----------------------------------------------------------------------------
(* The plans handed to NewPieceReader *)

\* the sequences over S of length 0..n
SeqsUpTo(S, n) == UNION {[1..k -> S] : k \in 0..n}

\* What a candidate is made from: inline payload bytes, or a range of an item.
RawShapes ==
    {[raw |-> TRUE, data |-> <<>>, v |-> 2],
     [raw |-> TRUE, data |-> <<200, 201>>, v |-> 4],
     [raw |-> TRUE, data |-> <<202>>, v |-> 300]}

ItemShapes ==
    {[raw |-> FALSE, item |-> 1, off |-> o, len |-> 1] : o \in 0..(ItemSize - 1)}
    \cup {[raw |-> FALSE, item |-> 1, off |-> 1, len |-> 0],
          [raw |-> FALSE, item |-> 2, off |-> 0, len |-> 2]}

ReadShapes == RawShapes \cup ItemShapes

BuildShapes ==
    {[raw |-> TRUE, data |-> <<200>>, v |-> 3],
     [raw |-> FALSE, item |-> 1, off |-> 0, len |-> 1],
     [raw |-> FALSE, item |-> 2, off |-> 0, len |-> 1]}

\* How a plan departs from a well-formed one: the first offset and the declared
\* size shifted, a gap or overlap after candidate gapAt, the declared length of
\* candidate lenAt off its derived length, the item or source of candidate
\* nilAt missing.
NoDefect ==
    [hdrShift |-> 0, ftrShift |-> 0, gapAt |-> 0, gapDelta |-> 0,
     lenAt |-> 0, lenDelta |-> 0, nilAt |-> 0, nilKind |-> "none"]

BuildDefects(n) ==
    {[NoDefect EXCEPT !.hdrShift = h, !.ftrShift = f, !.gapAt = g[1], !.gapDelta = g[2],
                      !.nilAt = z[1], !.nilKind = z[2]] :
        h \in {0, 1}, f \in {0, 1},
        g \in {<<0, 0>>} \cup ((1..(n - 1)) \X {-1, 1}),
        z \in {<<0, "none">>} \cup ((1..n) \X {"item", "source", "both"})}

ReadDefects(n) ==
    {NoDefect}
    \cup {[NoDefect EXCEPT !.lenAt = i, !.lenDelta = dl] : i \in 1..n, dl \in {-1, 1}}
    \cup {[NoDefect EXCEPT !.nilAt = n, !.nilKind = "item"] : i \in 1..n}

\* the candidate made from shape s, the i-th of the plan, at piece offset off
Candidate(s, i, off, d) ==
    LET cid == IF s.raw THEN <<170 + i, 187>> ELSE <<170 + i>>
        payload == IF s.raw THEN Len(s.data) ELSE s.len
        varint == IF s.raw THEN s.v ELSE Len(cid) + s.len
        derived == Len(ToUvarint(varint)) + Len(cid) + payload
        noItem == s.raw \/ (d.nilAt = i /\ d.nilKind \in {"item", "both"})
        noSource == s.raw \/ (d.nilAt = i /\ d.nilKind \in {"source", "both"})
    IN [CarOffset |-> off,
        CarBlockLength |-> derived + (IF d.lenAt = i THEN d.lenDelta ELSE 0),
        Varint |-> varint,
        CID |-> cid,
        RawBlock |-> IF s.raw THEN Some(s.data) ELSE Nil,
        Item |-> IF noItem THEN Nil ELSE Some(Item(s.item)),
        Source |-> IF noSource THEN Nil ELSE Some([ID |-> s.item]),
        ItemOffset |-> IF s.raw THEN 0 ELSE s.off,
        BlockLength |-> payload]

RECURSIVE Candidates(_, _, _, _)
Candidates(ss, d, i, off) ==
    IF i > Len(ss) THEN <<>>
    ELSE LET cb == Candidate(ss[i], i, off, d)
         IN <<cb>> \o Candidates(ss, d, i + 1,
                                 off + cb.CarBlockLength
                                     + (IF d.gapAt = i THEN d.gapDelta ELSE 0))

\* the end offset the last candidate declares, the header length for no candidate
DeclaredEnd(cbs) ==
    IF Len(cbs) = 0 THEN Len(Header)
    ELSE cbs[Len(cbs)].CarOffset + cbs[Len(cbs)].CarBlockLength

PlanBlocks(ss, d) == Candidates(ss, d, 1, Len(Header) + d.hdrShift)

PlanCar(ss, d) ==
    [Header |-> Header, FileSize |-> DeclaredEnd(PlanBlocks(ss, d)) + d.ftrShift]

----------------------------------------------------------------------------
(* The state machine *)

InitWith(ss, d, rOk) ==
    /\ car = PlanCar(ss, d)
    /\ carBlocks = PlanBlocks(ss, d)
    /\ resolverOk = rOk
    /\ built = [state |-> "none", err |-> NoErr, calls |-> 0]
    /\ Blocks = <<>>
    /\ readers = <<>>
    /\ obs = <<>>
    /\ streams = <<>>
    /\ panicked = FALSE

Init ==
    \E ss \in SeqsUpTo(ReadShapes, MaxBlocks), rOk \in BOOLEAN :
        \E d \in ReadDefects(Len(ss)) : InitWith(ss, d, rOk)

InitBuild ==
    \E ss \in SeqsUpTo(BuildShapes, MaxBuildBlocks), rOk \in BOOLEAN :
        \E d \in BuildDefects(Len(ss)) : InitWith(ss, d, rOk)

\* What the callers of a reader positioned at start have seen, nothing yet:
\* the bytes returned (out), the last call (op) and what the last Read returned
\* (n, err), whether a Read has returned end-of-stream (eof) or an error
\* (ioErr), the largest buffer handed to Read (maxLen), the Close calls made and
\* whether one returned an error, the offset of a MakeCopy call that
\* panicked (copyAt), and whether a call to the source failed during the last
\* Read (srcFail) and how many calls to the source that Read made afterwards
\* (srcAfter), and the parity of the Read calls of a caller that counts them.
FreshObs(start) ==
    [start |-> start, out |-> <<>>, op |-> "new", n |-> 0, err |-> "nil",
     eof |-> FALSE, ioErr |-> FALSE, maxLen |-> 0, closeCalls |-> 0,
     closeErr |-> FALSE, copyAt |-> -1, srcFail |-> FALSE, srcAfter |-> 0,
     parity |-> 0]

NewPieceReader ==
    /\ built.state = "none"
    /\ \E r \in {NewPieceReaderResult(car, carBlocks, resolverOk)} :
        /\ built' = [state |-> "done", err |-> r.err, calls |-> r.calls]
        /\ Blocks' = r.Blocks
        /\ readers' = IF r.err = NoErr THEN <<FreshReader>> ELSE <<>>
        /\ obs' = IF r.err = NoErr THEN <<FreshObs(0)>> ELSE <<>>
        /\ panicked' = (r.err = Panic)
    /\ UNCHANGED <<car, carBlocks, resolverOk, streams>>

\* the output buffer sizes tried: the small ones and one that holds any piece
BigBuf == 64
BufSizes == (1..MaxBuf) \cup {BigBuf}

\* a Read call on reader r with a buffer of one of the sizes, whose source opens
\* succeed as opens allows and whose source reads fail as errs allows; a source
\* read delivers 1 byte or all asked; a caller that counts its calls (counted)
\* keeps their parity
ReadStep(r, sizes, opens, errs, counted) ==
    /\ ~panicked
    /\ r \in DOMAIN readers
    /\ \E L \in sizes, openOk \in opens, rdN \in {1, BigBuf}, rdErr \in errs :
        \E c \in {ReadResult(readers[r], streams, Blocks, car.Header, L, openOk, rdN, rdErr)} :
        /\ readers' = [readers EXCEPT ![r] = c.pr]
        /\ streams' = c.str
        /\ panicked' = c.panic
        /\ obs' = IF c.panic THEN [obs EXCEPT ![r].op = "read"]
                  ELSE [obs EXCEPT ![r].out = @ \o SubSeq(c.data, 1, c.n),
                                   ![r].op = "read",
                                   ![r].maxLen = IF L > @ THEN L ELSE @,
                                   ![r].n = c.n,
                                   ![r].err = c.err,
                                   ![r].eof = @ \/ c.err = "EOF",
                                   ![r].ioErr = @ \/ c.err = "err",
                                   ![r].srcFail = c.fail,
                                   ![r].srcAfter = c.after,
                                   ![r].parity = IF counted THEN 1 - @ ELSE @]
    /\ UNCHANGED <<car, carBlocks, resolverOk, built, Blocks>>

ReadSized(r, sizes, opens, errs) == ReadStep(r, sizes, opens, errs, FALSE)

ReadWith(r, opens, errs) == ReadSized(r, BufSizes, opens, errs)

\* Read against sources that open and deliver
Read(r) == ReadWith(r, {TRUE}, {FALSE})

MakeCopy(r) ==
    /\ ~panicked
    /\ r \in DOMAIN readers
    /\ \E offset \in 0..car.FileSize :
        \E m \in {MakeCopyResult(Blocks, car.Header, offset)} :
        /\ panicked' = m.panic
        /\ readers' = IF m.panic THEN readers ELSE Append(readers, m.pr)
        /\ obs' = IF m.panic THEN [obs EXCEPT ![r].op = "copy", ![r].copyAt = offset]
                  ELSE Append(obs, FreshObs(offset))
    /\ UNCHANGED <<car, carBlocks, resolverOk, built, Blocks, streams>>

Close(r) ==
    /\ ~panicked
    /\ r \in DOMAIN readers
    /\ obs[r].closeCalls < MaxCloses
    /\ \E closeErr \in BOOLEAN :
        \E c \in {CloseResult(readers[r], streams, closeErr)} :
        /\ streams' = c.str
        /\ obs' = [obs EXCEPT ![r].op = "close",
                              ![r].closeCalls = @ + 1,
                              ![r].closeErr = @ \/ c.err = "err"]
    /\ UNCHANGED <<car, carBlocks, resolverOk, built, Blocks, readers, panicked>>

\* The caller of Spec drives one reader at a time: the reader NewPieceReader
\* returned, or, once it has taken a copy of that reader before reading it,
\* the copy.  MakeCopy reads nothing of its receiver but Blocks and Header.
Driven == Len(readers)

Next ==
    \/ NewPieceReader
    \/ Read(Driven)
    \/ (Len(readers) = 1 /\ obs[1].op = "new" /\ MakeCopy(1))
    \/ Close(Driven)

Spec == Init /\ [][Next]_vars

NextBuild == NewPieceReader

SpecBuild == InitBuild /\ [][NextBuild]_vars

\* Several readers over one block list, driven in any interleaving: the reader
\* NewPieceReader returned and the copies taken of it, at any moment, up to
\* MaxReaders readers in all, each closed once at most.  The plans are
\* well-formed ones.
MaxReaders == 2

ParShapes ==
    {[raw |-> TRUE, data |-> <<200>>, v |-> 3],
     [raw |-> FALSE, item |-> 1, off |-> 0, len |-> 1],
     [raw |-> FALSE, item |-> 1, off |-> 1, len |-> 1]}

ParSizes == {1, BigBuf}

InitPar == \E ss \in SeqsUpTo(ParShapes, MaxBlocks) : InitWith(ss, NoDefect, TRUE)

NextPar ==
    \/ NewPieceReader
    \/ \E r \in 1..MaxReaders : ReadSized(r, ParSizes, {TRUE}, {FALSE})
    \/ (Len(readers) < MaxReaders /\ MakeCopy(1))
    \/ \E r \in 1..MaxReaders : (r \in DOMAIN obs /\ obs[r].closeCalls = 0 /\ Close(r))

SpecPar == InitPar /\ [][NextPar]_vars

\* One reader against sources that may fail: an open or a read of the stream
\* may return an error.  The plans are well-formed ones.
InitFaulty == \E ss \in SeqsUpTo(ReadShapes, MaxBlocks) : InitWith(ss, NoDefect, TRUE)

NextFaulty ==
    \/ NewPieceReader
    \/ ReadWith(1, BOOLEAN, BOOLEAN)
    \/ Close(1)

SpecFaulty == InitFaulty /\ [][NextFaulty]_vars

\* One reader of a well-formed plan whose caller calls Read again and again,
\* against sources that open and deliver.
InitLive == \E ss \in SeqsUpTo(ReadShapes, MaxBlocks) : InitWith(ss, NoDefect, TRUE)

ReadLive == ReadStep(1, BufSizes, {TRUE}, {FALSE}, TRUE)

NextLive ==
    \/ NewPieceReader
    \/ ReadLive

SpecLive == InitLive /\ [][NextLive]_vars /\ WF_vars(NewPieceReader) /\ WF_vars(ReadLive)

----------------------------------------------------------------------------
(* What the plan handed to NewPieceReader looks like, stated on the candidates *)

Done == built.state = "done"
NoReader == readers = <<>> /\ Blocks = <<>>

FirstAtHeader == carBlocks[1].CarOffset = Len(car.Header)
LastAtSize ==
    carBlocks[Len(carBlocks)].CarOffset + carBlocks[Len(carBlocks)].CarBlockLength
        = car.FileSize
GapAfter(i) ==
    carBlocks[i].CarOffset + carBlocks[i].CarBlockLength # carBlocks[i + 1].CarOffset
HasGap == \E i \in 1..(Len(carBlocks) - 1) : GapAfter(i)
NonInline(i) == carBlocks[i].RawBlock = Nil
LacksItemOrSource(i) ==
    NonInline(i) /\ (carBlocks[i].Item = Nil \/ carBlocks[i].Source = Nil)
LacksBoth(i) == NonInline(i) /\ carBlocks[i].Item = Nil /\ carBlocks[i].Source = Nil

----------------------------------------------------------------------------
(* C4 *)

\* C4, as stated: NewPieceReader on a candidate list with a gap or an overlap
\* between two consecutive candidates fails with the non-contiguous error and
\* returns no reader.
C4_AsStated == (Done /\ HasGap) => (built.err = ErrContiguous /\ NoReader)

\* C4, amended: NewPieceReader on a candidate list with a gap or an overlap
\* always fails with an error and returns no reader; the error is the
\* non-contiguous error when the first candidate starts at the header length,
\* the last candidate ends at the declared size, and no candidate before the
\* first gap or overlap is a non-inline candidate without item or source.
C4_GapRejected ==
    (Done /\ HasGap) =>
        /\ NoReader
        /\ built.err \notin {NoErr, Panic}
        /\ (/\ FirstAtHeader
            /\ LastAtSize
            /\ \A i \in 1..(Len(carBlocks) - 1) :
                 GapAfter(i) => \A j \in 1..(i - 1) : GapAfter(j) \/ ~LacksItemOrSource(j))
           => built.err = ErrContiguous

\* a list of three or more candidates with a gap or overlap was rejected as non-contiguous
C4_Witness ==
    /\ Done
    /\ Len(carBlocks) >= 3
    /\ HasGap
    /\ built.err = ErrContiguous

----------------------------------------------------------------------------
(* C5 *)

\* C5, as stated: NewPieceReader fails with the header-misalignment error when
\* the first candidate's offset is not the header length, and with the
\* footer-misalignment error when the last candidate's end offset is not the
\* declared piece size; in both cases no reader is returned.
C5_AsStated ==
    (Done /\ Len(carBlocks) > 0) =>
        /\ ~FirstAtHeader => (built.err = ErrHeader /\ NoReader)
        /\ ~LastAtSize => (built.err = ErrFooter /\ NoReader)

\* C5, amended: NewPieceReader fails with the header-misalignment error when
\* the first candidate's offset is not the header length, and with the
\* footer-misalignment error when the first candidate's offset is the header
\* length and the last candidate's end offset is not the declared piece size;
\* in both cases no reader is returned.
C5_Misaligned ==
    (Done /\ Len(carBlocks) > 0) =>
        /\ ~FirstAtHeader => (built.err = ErrHeader /\ NoReader)
        /\ (FirstAtHeader /\ ~LastAtSize) => (built.err = ErrFooter /\ NoReader)

\* a list whose first candidate is aligned and whose last candidate ends short
\* of the declared size was rejected with the footer error
C5_Witness ==
    /\ Done
    /\ Len(carBlocks) >= 2
    /\ FirstAtHeader
    /\ ~LastAtSize
    /\ built.err = ErrFooter

----------------------------------------------------------------------------
(* C6 *)

\* C6: NewPieceReader fails with the unresolvable-reference error, returning
\* no reader, whenever any candidate (at any position, the last and the only
\* one included) is non-inline and lacks both item reference and item
\* metadata.  Stated for the lists that pass the alignment and contiguity
\* checks, where no other error can take precedence.
C6_UnresolvedRejected ==
    (/\ Done
     /\ Len(carBlocks) > 0
     /\ FirstAtHeader
     /\ LastAtSize
     /\ ~HasGap
     /\ \E i \in 1..Len(carBlocks) : LacksBoth(i))
    => (built.err = ErrUnresolved /\ NoReader)

----------------------------------------------------------------------------
(* C7 *)

\* the number of candidates a block of the block list stands for
Entries(b) == IF IsRaw(b) THEN 1 ELSE Len(b.Meta)

RECURSIVE EntriesBefore(_)
EntriesBefore(b) == IF b <= 1 THEN 0 ELSE EntriesBefore(b - 1) + Entries(Blocks[b - 1])

\* the block that holds the k-th candidate, counting entries in block-list order
Owner(k) ==
    CHOOSE b \in 1..Len(Blocks) :
        EntriesBefore(b) < k /\ k <= EntriesBefore(b) + Entries(Blocks[b])

\* what the block list holds for the k-th candidate
EntryOf(k) ==
    LET b == Blocks[Owner(k)]
    IN IF IsRaw(b) THEN b ELSE b.Meta[k - EntriesBefore(Owner(k))]

SameItem(i, j) ==
    /\ NonInline(i) /\ NonInline(j)
    /\ carBlocks[i].Item # Nil /\ carBlocks[j].Item # Nil
    /\ carBlocks[i].Item[1].ID = carBlocks[j].Item[1].ID

\* C7: in the block list NewPieceReader builds, the entries of the item runs
\* and the inline blocks are the candidates, in order (so their number is the
\* number of candidates); an inline candidate is an inline block, a non-inline
\* candidate an entry of an item run; and two consecutive candidates are in
\* the same run exactly when both are non-inline with the same item identity.
C7_Folding ==
    (Done /\ built.err = NoErr) =>
        /\ EntriesBefore(Len(Blocks) + 1) = Len(carBlocks)
        /\ \A k \in 1..Len(carBlocks) :
             /\ IsRaw(Blocks[Owner(k)]) <=> ~NonInline(k)
             /\ EntryOf(k).PieceOffset = carBlocks[k].CarOffset
             /\ NonInline(k) => /\ EntryOf(k).ItemOffset = carBlocks[k].ItemOffset
                                /\ EntryOf(k).ItemLength = carBlocks[k].BlockLength
        /\ \A k \in 1..(Len(carBlocks) - 1) :
             (Owner(k) = Owner(k + 1)) <=> SameItem(k, k + 1)

\* two candidates of one item, an inline candidate and a candidate of the same
\* item became [ItemRun(2 entries), Inline, ItemRun(1 entry)]
C7_Witness ==
    /\ Done
    /\ built.err = NoErr
    /\ Len(carBlocks) = 4
    /\ Len(Blocks) = 3
    /\ ~IsRaw(Blocks[1]) /\ Len(Blocks[1].Meta) = 2
    /\ IsRaw(Blocks[2])
    /\ ~IsRaw(Blocks[3]) /\ Len(Blocks[3].Meta) = 1
    /\ Blocks[1].Item = Blocks[3].Item

----------------------------------------------------------------------------
(* The piece, and what a reader is expected to return *)

RECURSIVE Concat(_)
Concat(ss) == IF ss = <<>> THEN <<>> ELSE Head(ss) \o Concat(Tail(ss))

\* prefix ++ identifier ++ payload of one metadata entry of an item run
EntryBytes(itemBlock, m) ==
    m.Varint \o m.Cid
    \o (IF itemBlock.Item = Nil THEN <<>>
        ELSE ItemRange(itemBlock.Item[1].Path, m.ItemOffset, m.ItemLength))

BlockBytes(b) ==
    IF IsRaw(b) THEN b.Varint \o b.Cid \o b.BlockData
    ELSE Concat([k \in 1..Len(b.Meta) |-> EntryBytes(b, b.Meta[k])])

\* header ++ (for each block in block-list order: prefix ++ identifier ++ payload)
PieceBytes == car.Header \o Concat([k \in 1..Len(Blocks) |-> BlockBytes(Blocks[k])])

Suffix(s, k) == SubSeq(s, k + 1, Len(s))
IsPrefix(s, t) == Len(s) <= Len(t) /\ s = SubSeq(t, 1, Len(s))

\* Read called with buffers of L bytes, against sources that deliver all that is
\* asked, until end-of-stream or for fuel calls: the bytes returned, whether
\* end-of-stream was returned, and whether a call panicked
RECURSIVE ReadAll(_, _, _, _, _)
ReadAll(pr, str, L, out, fuel) ==
    IF fuel = 0 THEN [out |-> out, eof |-> FALSE, panic |-> FALSE]
    ELSE LET c == ReadResult(pr, str, Blocks, car.Header, L, TRUE, L, FALSE)
         IN IF c.panic THEN [out |-> out, eof |-> FALSE, panic |-> TRUE]
            ELSE IF c.err = "EOF" THEN [out |-> out, eof |-> TRUE, panic |-> FALSE]
            ELSE ReadAll(c.pr, c.str, L, out \o SubSeq(c.data, 1, c.n), fuel - 1)

\* the reading of a fresh reader with one buffer large enough for the whole piece
FullRead == ReadAll(FreshReader, <<>>, BigBuf, <<>>, 2 * Len(carBlocks) + 4)

Built == Done /\ built.err = NoErr

\* every candidate declares the length its prefix, identifier and payload have
DeclaredConsistent ==
    \A k \in 1..Len(carBlocks) :
        carBlocks[k].CarBlockLength =
            Len(ToUvarint(carBlocks[k].Varint)) + Len(CidBytes(carBlocks[k].CID))
            + (IF NonInline(k) THEN carBlocks[k].BlockLength
               ELSE Len(carBlocks[k].RawBlock[1]))

----------------------------------------------------------------------------
(* C1 *)

\* C1: the bytes returned by the Read calls on a freshly built reader, up to
\* end-of-stream, are header ++ (for each block in block-list order: prefix ++
\* identifier ++ payload), the payload of an item entry being the item's bytes
\* [item_offset, item_offset + item_length), and their number is the declared
\* piece size.  Stated for the plans whose candidates declare their true
\* lengths.
C1_FullPiece ==
    \A r \in DOMAIN obs :
        (DeclaredConsistent /\ obs[r].start = 0 /\ obs[r].eof /\ ~obs[r].ioErr) =>
            /\ obs[r].out = PieceBytes
            /\ Len(obs[r].out) = car.FileSize

----------------------------------------------------------------------------
(* C2 *)

\* C2: for every offset O in [0, piece_size), MakeCopy(O) succeeds, and the
\* bytes the returned reader returns up to end-of-stream are the suffix from
\* byte O of the full read of the piece.  Stated for the plans whose
\* candidates declare their true lengths and whose full read ends.
C2_SeekConsistent ==
    (Built /\ DeclaredConsistent /\ FullRead.eof) =>
        /\ ~(panicked /\ obs[1].op = "copy" /\ obs[1].copyAt < car.FileSize)
        /\ (Len(obs) = 2 /\ obs[2].start < car.FileSize) =>
              /\ ~(panicked /\ obs[2].op = "read")
              /\ (obs[2].eof /\ ~obs[2].ioErr) =>
                    obs[2].out = Suffix(FullRead.out, obs[2].start)

----------------------------------------------------------------------------
(* C3 *)

\* C3: whatever the sizes of the non-empty buffers handed to Read (1 byte per
\* call included) and however the source splits its deliveries, the bytes a
\* freshly built reader has returned up to end-of-stream are the bytes
\* returned with one buffer large enough for the whole piece; before
\* end-of-stream they are a prefix of them (unless the reading with the large
\* buffer panics).
C3_ReadSizeIndependent ==
    \A r \in DOMAIN obs :
        (obs[r].start = 0 /\ ~obs[r].ioErr /\ ~panicked) =>
            /\ ~FullRead.panic => IsPrefix(obs[r].out, FullRead.out)
            /\ obs[r].eof => (FullRead.eof /\ obs[r].out = FullRead.out)

\* a piece of two blocks, one of them an item run, was read to end-of-stream
\* one byte at a time
C3_Witness ==
    /\ Built
    /\ Len(carBlocks) = 2
    /\ \E k \in 1..Len(Blocks) : ~IsRaw(Blocks[k])
    /\ obs[1].eof
    /\ ~obs[1].ioErr
    /\ obs[1].maxLen = 1
    /\ Len(obs[1].out) = car.FileSize
    /\ Len(obs[1].out) >= 8

----------------------------------------------------------------------------
(* C8 *)

\* C8: a Read call with a non-empty buffer that does not fail returns at least
\* 1 byte or end-of-stream, never 0 bytes with no error.  Stated for the
\* plans of inline candidates that declare their true lengths.
C8_NoEmptyRead ==
    \A r \in DOMAIN obs :
        (/\ DeclaredConsistent
         /\ \A k \in 1..Len(carBlocks) : ~NonInline(k)
         /\ obs[r].op = "read" /\ ~panicked /\ obs[r].err = "nil") => obs[r].n >= 1

----------------------------------------------------------------------------
(* C9 *)

\* C9: whatever Close calls are made, no source stream is released more than
\* once and no Close call returns an error.
C9_CloseOnce ==
    /\ \A k \in DOMAIN streams : streams[k].closes <= 1
    /\ \A r \in DOMAIN obs : ~obs[r].closeErr

----------------------------------------------------------------------------
(* C10 *)

\* C10, first part: a Read returns end-of-stream only after every byte of the
\* piece has been delivered, the cursor position being the declared piece size.
C10_EofOnlyAtEnd ==
    \A r \in DOMAIN obs :
        (obs[r].op = "read" /\ ~panicked /\ obs[r].err = "EOF") =>
            /\ readers[r].pos = car.FileSize
            /\ ~obs[r].ioErr => Len(obs[r].out) = car.FileSize - obs[r].start

\* C10, second part: once a Read of a reader has returned end-of-stream, every
\* later Read of that reader returns 0 bytes and end-of-stream.
C10_EofSticky ==
    [][\A r \in DOMAIN obs :
          (obs[r].eof /\ obs'[r].op = "read" /\ ~panicked') =>
              (obs'[r].n = 0 /\ obs'[r].err = "EOF" /\ readers'[r] = readers[r])]_vars

----------------------------------------------------------------------------
(* C11 *)

\* the item runs of the block list
Runs == {b \in 1..Len(Blocks) : ~IsRaw(Blocks[b])}

\* C11: source resolution is lazy: building the plan (NewPieceReader) makes no
\* call to the source resolver, the capability of a run being obtained at the
\* first read that reaches the run.
C11_LazyResolver == Done => built.calls = 0

----------------------------------------------------------------------------
(* C12 *)

\* the streams opened and not yet released
OpenStreams(str) == {k \in DOMAIN str : str[k].closes = 0}

\* every item candidate has a payload of at least one byte
NoEmptyEntry == \A k \in 1..Len(carBlocks) : NonInline(k) => carBlocks[k].BlockLength > 0

\* the entry the cursor pr is on, pr being on an item run
CursorEntry(pr) == Blocks[pr.blockID + 1].Meta[pr.innerBlockID + 1]

\* C12: a reader holds at most one open source stream, and a stream is opened
\* only by a Read call that needs a payload byte of an item run: the call that
\* opens it is a Read on an item run that takes at least one payload byte from
\* it; Reads that emit only header, prefix or identifier bytes, and MakeCopy,
\* open none.  Stated for the reader driven alone, on plans whose candidates
\* declare their true lengths and whose item candidates have a payload.
C12_OneStreamLazily ==
    [][(DeclaredConsistent /\ NoEmptyEntry) =>
          /\ Cardinality(OpenStreams(streams')) <= 1
          /\ Len(streams') > Len(streams) =>
                /\ Len(readers') = Len(readers)
                /\ obs'[Driven].op = "read"
                /\ ~IsRaw(Blocks[readers[Driven].blockID + 1])
                /\ streams'[Len(streams')].cur >
                      CursorEntry(readers[Driven]).ItemOffset + readers[Driven].blockOffset]_vars

----------------------------------------------------------------------------
(* C13 *)

\* what a reader has of its own: its cursor, and the stream it holds if any
Own(pr, str) == IF pr.reader = Nil THEN <<>> ELSE <<str[pr.reader[1]]>>
Alone(pr) == [pr EXCEPT !.reader = IF @ = Nil THEN Nil ELSE Some(1)]

\* the Read call of reader r run alone, on that reader's cursor and stream only
ReadAlone(r, L, rdN) ==
    ReadResult(Alone(readers[r]), Own(readers[r], streams), Blocks, car.Header,
               L, TRUE, rdN, FALSE)

\* the step is a Read call of reader r, a Close call of reader r, a MakeCopy call
IsRead(r) ==
    /\ Len(readers') = Len(readers)
    /\ readers'[r] # readers[r] \/ (obs'[r] # obs[r] /\ obs'[r].op = "read")
IsClose(r) == obs'[r].closeCalls > obs[r].closeCalls
IsCopy == Len(readers') > Len(readers) \/ (obs # <<>> /\ obs'[1].copyAt # obs[1].copyAt)

\* the step leaves alone every reader but r: cursor, stream and what was seen
OthersUntouched(r) ==
    \A q \in DOMAIN readers \ {r} :
        /\ readers'[q] = readers[q]
        /\ obs'[q] = obs[q]
        /\ Own(readers'[q], streams') = Own(readers[q], streams)

\* C13: under every interleaving of the Read and Close calls of a reader and of
\* its copies, each Read call of a reader returns the bytes and the error, and
\* leaves the cursor and the stream, that the same call returns and leaves
\* when the reader runs alone, and touches no other reader; a Close call
\* touches no other reader; MakeCopy leaves every existing cursor and stream
\* unchanged; and the block list is never modified once built.
C13_Independent ==
    [][(built.state = "done" /\ ~panicked) =>
          /\ Blocks' = Blocks
          /\ \A r \in DOMAIN readers :
                /\ IsRead(r) =>
                      /\ OthersUntouched(r)
                      /\ \E L \in ParSizes, rdN \in {1, BigBuf} :
                            \E a \in {ReadAlone(r, L, rdN)} :
                              /\ a.panic = panicked'
                              /\ ~a.panic =>
                                    /\ Alone(readers'[r]) = a.pr
                                    /\ Own(readers'[r], streams') = Own(a.pr, a.str)
                                    /\ obs'[r].n = a.n
                                    /\ obs'[r].err = a.err
                                    /\ obs'[r].out = obs[r].out \o SubSeq(a.data, 1, a.n)
                /\ IsClose(r) => (readers' = readers /\ OthersUntouched(r))
          /\ IsCopy =>
                /\ SubSeq(readers', 1, Len(readers)) = readers
                /\ streams' = streams
                /\ \A q \in DOMAIN obs : q > 1 => obs'[q] = obs[q]
                /\ Len(readers') > Len(readers) => readers'[Len(readers')].reader = Nil]_vars

\* two readers of one piece, the copy positioned on a block after the first,
\* each part-way through an item run and holding an open stream of its own
C13_Witness ==
    /\ Len(readers) = 2
    /\ ~panicked
    /\ obs[2].start > Len(car.Header)
    /\ Len(obs[1].out) > obs[2].start
    /\ obs[2].out # <<>>
    /\ readers[1].reader # Nil /\ readers[2].reader # Nil
    /\ readers[1].reader # readers[2].reader
    /\ OpenStreams(streams) = {readers[1].reader[1], readers[2].reader[1]}

----------------------------------------------------------------------------
(* C14 *)

\* C14: the Read call in which the source open or the source read returns an
\* error (not end-of-stream) returns a non-nil error to its caller, and makes
\* no further call to the source.
C14_FailurePropagated ==
    \A r \in DOMAIN obs :
        (obs[r].op = "read" /\ ~panicked /\ obs[r].srcFail) =>
            /\ obs[r].err = "err"
            /\ obs[r].srcAfter = 0

\* a stream read failed after the stream had delivered payload bytes of an
\* earlier entry of the run, in a call that had copied prefix bytes
C14_Witness ==
    /\ obs # <<>>
    /\ obs[1].op = "read"
    /\ obs[1].srcFail
    /\ obs[1].err = "err"
    /\ obs[1].n > 0
    /\ readers[1].reader # Nil
    /\ streams[readers[1].reader[1]].closes = 0
    /\ readers[1].innerBlockID > 0

----------------------------------------------------------------------------
(* C15 *)

\* the end offset of a block of the block list, as the reader derives it
BlockEnd(b) == IF IsRaw(b) THEN RawEndOffset(b) ELSE MetaEndOffset(b.Meta[Len(b.Meta)])

\* whether offset O lies in the block, in the metadata entry
InBlock(b, O) == b.PieceOffset <= O /\ O < BlockEnd(b)
InEntry(m, O) == m.PieceOffset <= O /\ O < MetaEndOffset(m)

\* C15: for every offset O with len(header) <= O < piece_size, MakeCopy(O)
\* does not fail and sets the new reader's block index to the block whose
\* range contains O and, when that block is an item run, its entry index to
\* the entry whose range contains O, the in-entry offset being O minus the
\* entry's start.  Stated for the plans whose candidates declare their true
\* lengths.
C15_CopyIndices ==
    (Built /\ DeclaredConsistent) =>
        /\ ~(/\ panicked /\ obs[1].op = "copy"
             /\ obs[1].copyAt >= Len(car.Header) /\ obs[1].copyAt < car.FileSize)
        /\ (/\ Len(readers) = 2 /\ obs[2].op = "new"
            /\ obs[2].start >= Len(car.Header) /\ obs[2].start < car.FileSize) =>
              \A i \in 1..Len(Blocks) :
                  InBlock(Blocks[i], obs[2].start) =>
                      /\ readers[2].blockID = i - 1
                      /\ IsRaw(Blocks[i]) =>
                            readers[2].blockOffset = obs[2].start - Blocks[i].PieceOffset
                      /\ ~IsRaw(Blocks[i]) =>
                            \A k \in 1..Len(Blocks[i].Meta) :
                                InEntry(Blocks[i].Meta[k], obs[2].start) =>
                                    /\ readers[2].innerBlockID = k - 1
                                    /\ readers[2].blockOffset =
                                          obs[2].start - Blocks[i].Meta[k].PieceOffset

----------------------------------------------------------------------------
(* C16 *)

\* C16: the payload bytes a freshly built reader emits for each metadata entry
\* of an item run are the item's bytes starting at the entry's own item
\* offset, whether or not the entries of the run are adjacent in the item:
\* what has been read so far is the beginning of the piece.  Stated for the
\* plans whose candidates declare their true lengths.
C16_OwnOffset ==
    \A r \in DOMAIN obs :
        (DeclaredConsistent /\ obs[r].start = 0 /\ ~obs[r].ioErr /\ ~panicked) =>
            IsPrefix(obs[r].out, PieceBytes)

----------------------------------------------------------------------------
(* C17 *)

\* the cursor is on an item run
OnRun(pr) == pr.blockID < Len(Blocks) /\ ~IsRaw(Blocks[pr.blockID + 1])

\* the reader holds a stream that has not been released
HoldsOpen(pr, str) == pr.reader # Nil /\ str[pr.reader[1]].closes = 0

\* the stream that serves a Read call made with cursor pr and streams str
Serving(pr, str) == IF pr.reader # Nil THEN pr.reader[1] ELSE Len(str) + 1

\* C17: a Read call that leaves the position at the end of the metadata entry
\* the cursor was on (its payload fully consumed) moves the cursor to the next
\* entry of the run with the stream kept open, or, the entry being the run's
\* last, to the next top-level block with entry index 0, the run's stream
\* being released exactly once; and whenever the cursor is on an inline block
\* or past the end of the block list, the reader holds no open stream.
\* Stated for the reader driven alone, on plans whose candidates declare
\* their true lengths.
C17_RunRelease ==
    [][(DeclaredConsistent /\ Built /\ ~panicked') =>
          /\ ~OnRun(readers'[Driven]) => ~HoldsOpen(readers'[Driven], streams')
          /\ (/\ IsRead(Driven)
              /\ obs'[Driven].err = "nil"
              /\ OnRun(readers[Driven])
              /\ readers'[Driven].pos = MetaEndOffset(CursorEntry(readers[Driven]))) =>
                IF readers[Driven].innerBlockID + 1 < Len(Blocks[readers[Driven].blockID + 1].Meta)
                THEN /\ readers'[Driven].blockID = readers[Driven].blockID
                     /\ readers'[Driven].innerBlockID = readers[Driven].innerBlockID + 1
                     /\ HoldsOpen(readers'[Driven], streams')
                ELSE /\ readers'[Driven].blockID = readers[Driven].blockID + 1
                     /\ readers'[Driven].innerBlockID = 0
                     /\ readers'[Driven].reader = Nil
                     /\ streams'[Serving(readers[Driven], streams)].closes = 1]_vars

----------------------------------------------------------------------------
(* C18 *)

\* the end offset the reader derives for the k-th inline block or metadata entry
EntryEnd(k) ==
    IF IsRaw(Blocks[Owner(k)]) THEN RawEndOffset(EntryOf(k)) ELSE MetaEndOffset(EntryOf(k))

\* C18: the block list of every reader NewPieceReader returns is well-formed
\* as the reader derives it: the first block starts at len(header), the
\* derived end offset of every block and metadata entry (piece offset +
\* len(prefix) + len(identifier) + payload length) is the start offset of the
\* next, and the last derived end offset is the declared piece size.
C18_WellFormed ==
    Built =>
        /\ Blocks[1].PieceOffset = Len(car.Header)
        /\ \A k \in 1..(Len(carBlocks) - 1) : EntryEnd(k) = EntryOf(k + 1).PieceOffset
        /\ EntryEnd(Len(carBlocks)) = car.FileSize

----------------------------------------------------------------------------
(* C19 *)

\* C19: for every Read call, one that returns an error included, the returned
\* byte count is the amount by which the reader's piece position advanced
\* during the call; the position never decreases and never exceeds the
\* declared piece size.
C19_CountIsAdvance ==
    [][\A r \in DOMAIN readers :
          (IsRead(r) /\ ~panicked') =>
              /\ obs'[r].n = readers'[r].pos - readers[r].pos
              /\ readers'[r].pos >= readers[r].pos
              /\ readers'[r].pos <= car.FileSize]_vars

----------------------------------------------------------------------------
(* C20 *)

\* the entries of every item run are adjacent in the item
AdjacentRuns ==
    \A b \in Runs :
        \A k \in 1..(Len(Blocks[b].Meta) - 1) :
            Blocks[b].Meta[k + 1].ItemOffset
                = Blocks[b].Meta[k].ItemOffset + Blocks[b].Meta[k].ItemLength

\* C20: for a reader built from a valid plan (inline blocks with an empty
\* payload and item entries of payload length 0 included) whose sources
\* deliver every requested byte, calling Read again and again with a
\* non-empty buffer eventually returns end-of-stream.  Stated for the plans
\* whose runs have entries adjacent in the item.
C20_Progress == (Built /\ AdjacentRuns) ~> (panicked \/ (Built /\ obs[1].eof))

====
